---- MODULE Spec2Model ----
(***************************************************************************)
(* A model of the two tutorial notebooks of the repository.                *)
(*                                                                         *)
(*   "Powder Diffraction/Exposures and Dark Frames.ipynb": the simulated   *)
(*   beamline (shutter, sample holder, detector), the run engine RE with   *)
(*   the catalog subscribed to it, the plans dark_light_collection and     *)
(*   custom_plan, and the notebook cells that drive them by hand.          *)
(*                                                                         *)
(*   "archive/talks/databroker_demo.ipynb": the data broker db, filled by  *)
(*   RE through RE.subscribe('all', db.mds.insert), and the look-ups by    *)
(*   index, by uid and by partial uid; mega_plan with the keyword          *)
(*   searches; the adaptive plan scan_gaussian.                            *)
(*                                                                         *)
(* A plan is a generator: the run engine resumes it one message at a time. *)
(* pc names the source line of the plan the generator is suspended at.     *)
(*                                                                         *)
(* Specifications: Spec (the powder diffraction session), FailSpec (the    *)
(* same plans when a step can raise), PairSpec (dark_light_collection run  *)
(* repeatedly, one execution noted for comparison), DemoSpec (the look-ups *)
(* of the demo), MegaSpec (mega_plan and the searches), ScanSpec           *)
(* (scan_gaussian).                                                        *)
(***************************************************************************)
EXTENDS Integers, Sequences, FiniteSets, TLC

\* ------------------------------------------------------------------ bounds

\* samples 1..NumSamples can be loaded; 0 is the empty holder
NumSamples == 2
\* num_lights is drawn from 0..MaxLights
MaxLights == 2
\* num_loops is drawn from 0..MaxLoops
MaxLoops == 2
\* the demo's data broker holds at most MaxDbRuns runs
MaxDbRuns == 3
\* a run identifier of the demo has UidLen characters
UidLen == 6
\* a session records at most MaxRuns runs in the catalog
MaxRuns == 4
\* the exposures taken by hand (Part 1) are the first MaxManual runs at most
MaxManual == 2

\* ------------------------------------------------------------------ state

VARIABLES
    shutter,      \* simulated hardware: TRUE when the light is on (shutter open)
    sample,       \* simulated hardware: the loaded sample, 0 when none
    store,        \* the catalog: the runs recorded so far, oldest first
    plan,         \* what RE is executing: "none", "dlc" or "custom"
    pc,           \* the line the plan's generator is at, or "idle"
    sample_num,   \* dark_light_collection: argument
    num_lights,   \* dark_light_collection: argument
    i,            \* dark_light_collection: the loop variable of line 319
    uids,         \* dark_light_collection: the local list uids
    trace,        \* what the plan RE is executing has done so far
    t0,           \* Len(trace) when the running dark_light_collection started
    pre,          \* the hardware and the catalog's size when the running
                  \* dark_light_collection started
    ret,          \* uids = RE(dark_light_collection(...)): the returned list
    retCall,      \* the arguments of the call that produced ret
    last_run,     \* the identifier of the run RE executed last
    reduced,      \* the value of the last process_data(uids, num_lights=n) cell
    sleep_time,   \* custom_plan: argument
    num_loops,    \* custom_plan: argument
    loop_i,       \* custom_plan: the loop variable of line 695
    this_pair,    \* custom_plan: local
    new_int_list, \* the notebook's global list of line 691
    len0,         \* Len(new_int_list) when the running custom_plan started
    c_sample_num, \* custom_plan: argument
    failed,       \* the exception RE raised to the cell run last, None when
                  \* that cell ended normally
    seen,         \* a completed dark_light_collection noted for comparison:
                  \* its arguments, what it started from and what it issued
    \* databroker_demo.ipynb
    db,           \* the data broker's runs (headers), oldest first
    h,            \* h = db[-1]
    by_uid,       \* the outcome of db[h.start['uid']]
    by_partial,   \* the outcome of db[h.start['uid'][:5]]
    m_operator,   \* mega_plan: argument
    m_sample,     \* mega_plan: the position of the loop of line 514 in ('A', 'B', 'C')
    m_pc,         \* mega_plan: the line its generator is at, or "idle"
    m_base,       \* Len(db) when the running mega_plan started
    executed,     \* how often mega_plan has been executed to its end, per operator
    found,        \* the lengths the keyword search cells have shown, with what
                  \* the broker held when they were run
    sg_num,       \* scan_gaussian: argument num
    sg_thresh,    \* scan_gaussian: argument err_thresh, in thousandths
    sg_pc,        \* scan_gaussian: the line its generator is at, or "idle"
    sg_step,      \* scan_gaussian: the position of the loop of line 379 in its pass
    sg_points,    \* the points measured in the running scan
    lf_result,    \* lf.result: None, or the fit of the points measured so far
    sg_checks,    \* the evaluations of line 385 in the running scan
    sg_base       \* Len(db) when the running scan_gaussian started

hw      == <<shutter, sample>>
dlcvars == <<sample_num, num_lights, i, uids, trace, t0, pre>>
cvars   == <<c_sample_num, sleep_time, num_loops, loop_i, this_pair, new_int_list, len0>>
cells   == <<ret, retCall, reduced>>
vars    == <<hw, store, last_run, plan, pc, dlcvars, cvars, cells, failed, seen>>
mega    == <<m_operator, m_sample, m_pc, m_base, executed, found>>
gauss   == <<sg_num, sg_thresh, sg_pc, sg_step, sg_points, lf_result, sg_checks, sg_base>>
demo    == <<db, h, by_uid, by_partial, mega, gauss>>

None == <<>>

\* the operators the demo runs mega_plan for
Operators == {"tcaswell", "scampbell", "dallan"}

Samples == 1..NumSamples

\* a run identifier: RE draws a fresh one for every run (uuid4 in the run engine)
UidOf(k) == <<"uid", k>>

\* ------------------------------------------------- the simulated hardware

\* light(on): open (TRUE) or close (FALSE) the shutter
light(on) == shutter' = on

\* load_sample(n): put sample n into the beam
load_sample(n) == sample' = n

\* The detector image of one exposure, two pixels of one ring: pixel 1 carries
\* the static panel artefact, both carry the slowly varying background (it rises
\* with the frames already taken) and, with the shutter open, the sample's
\* pattern.
DetectorImage(sh, smp, nframes) ==
    LET pattern    == IF sh THEN 100 * smp ELSE 0
        background == nframes * nframes
    IN  <<5 + background + pattern, background + pattern>>

\* ------------------------------------------ the run engine and the catalog

UsedUids == {store[k].uid : k \in 1..Len(store)}

\* the identifier RE draws for the next run: never one already used. The
\* identifiers are opaque; the model draws them in a fixed order, which is not
\* the order of the catalog.
FreshUids == {UidOf(MaxRuns - Len(store))} \ UsedUids

\* a catalog that keeps its runs newest first
Insert_NewestFirst(st, run) == <<run>> \o st

\* the catalog is subscribed to RE: every run RE executes is inserted, newest last
Insert(st, run) == Append(st, run)

\* RE executes count([detector]) as the run u: one exposure of the detector in
\* the hardware's present state, recorded in the catalog before RE goes on
count(u) ==
    /\ last_run' = u
    /\ store' = Insert(store, [uid     |-> u,
                            shutter |-> shutter,
                            sample  |-> sample,
                            img     |-> DetectorImage(shutter, sample, Len(store))])

\* catalog[key]: an integer key (kind "index") counts back from the most
\* recent run, a string key (kind "uid") is a run identifier
Catalog(kind, key) ==
    IF kind = "index"
    THEN store[Len(store) + 1 + key]
    ELSE CHOOSE r \in {store[k] : k \in 1..Len(store)} : r.uid = key

\* retrieve_im(key): the image of the run catalog[key]
retrieve_im(kind, key) == Catalog(kind, key).img

\* image arithmetic, pixel by pixel (my_light - my_dark)
ImSub(a, b) == <<a[1] - b[1], a[2] - b[2]>>

\* simple_integration: the pixels of a ring are summed into one intensity
simple_integration(im) == im[1] + im[2]

\* process_data(pair, num_lights): the dark-subtracted, integrated intensity of
\* every light image of the list; return_dark / return_light give the reduced
\* dark or the reduced lights alone
process_data(pair, n, mode) ==
    LET my_dark == retrieve_im("uid", pair[1])
    IN  IF mode = "dark"
        THEN <<simple_integration(my_dark)>>
        ELSE [k \in 1..n |->
                LET my_light == retrieve_im("uid", pair[1 + k])
                IN  IF mode = "light"
                    THEN simple_integration(my_light)
                    ELSE simple_integration(ImSub(my_light, my_dark))]

\* one message of a plan, as the run engine receives it
Msg(op, arg, uid) == [op |-> op, arg |-> arg, uid |-> uid]
B2N(b) == IF b THEN 1 ELSE 0

\* the sleep times the notebook passes: the default 0 and 60
SleepTimes == {0, 60}

\* --------------------------------------------------------------------- Init

\* the session after the set-up cells: shutter closed, no sample, empty catalog
Init ==
    /\ shutter = FALSE
    /\ sample = 0
    /\ store = <<>>
    /\ last_run = None
    /\ plan = "none"
    /\ pc = "idle"
    /\ sample_num = 0
    /\ num_lights = 0
    /\ i = 0
    /\ uids = <<>>
    /\ trace = <<>>
    /\ t0 = 0
    /\ pre = None
    /\ ret = None
    /\ retCall = None
    /\ reduced = None
    /\ c_sample_num = 0
    /\ sleep_time = 0
    /\ num_loops = 0
    /\ loop_i = 0
    /\ this_pair = None
    /\ new_int_list = <<>>
    /\ len0 = 0
    /\ failed = None
    /\ seen = None
    /\ db = <<>>
    /\ h = None
    /\ by_uid = None
    /\ by_partial = None
    /\ m_operator = None
    /\ m_sample = 0
    /\ m_pc = "idle"
    /\ m_base = 0
    /\ executed = [o \in Operators |-> 0]
    /\ found = None
    /\ sg_num = 0
    /\ sg_thresh = 0
    /\ sg_pc = "idle"
    /\ sg_step = 0
    /\ sg_points = 0
    /\ lf_result = None
    /\ sg_checks = <<>>
    /\ sg_base = 0

\* ------------------------------------------------ dark_light_collection

\* the generator starts: uids = [] (line 304), then it runs to its first yield
EnterDLC(s, n) ==
    /\ sample_num' = s
    /\ num_lights' = n
    /\ uids' = <<>>
    /\ i' = 0
    /\ pre' = [shutter |-> shutter, sample |-> sample, nruns |-> Len(store)]
    /\ pc' = "L306"

\* the generator is finished: its locals are gone
LeaveDLC ==
    /\ sample_num' = 0
    /\ num_lights' = 0
    /\ uids' = <<>>
    /\ i' = 0
    /\ t0' = 0
    /\ pre' = None

\* uids = RE(dark_light_collection(s, num_lights=n))
CallDLC ==
    /\ plan = "none"
    /\ \E s \in Samples, n \in 0..MaxLights :
          /\ Len(store) + n + 1 <= MaxRuns
          /\ EnterDLC(s, n)
    /\ trace' = <<>>
    /\ t0' = 0
    /\ plan' = "dlc"
    /\ UNCHANGED <<hw, store, last_run, cvars, cells>>
    /\ failed' = None
    /\ UNCHANGED seen
    /\ UNCHANGED demo

\* a plan that trusts the shutter to be closed already
DLC_CloseShutter_Trusting ==
    /\ pc = "L306"
    /\ pc' = "L309"
    /\ UNCHANGED <<hw, store, last_run, plan, sample_num, num_lights, i, uids, trace,
                   t0, pre, cvars, cells>>
    /\ UNCHANGED <<failed, seen>>
    /\ UNCHANGED demo

\* a plan that closes the shutter only when it finds it open
DLC_CloseShutter_IfOpen ==
    /\ pc = "L306"
    /\ IF shutter
       THEN /\ light(FALSE)
            /\ trace' = Append(trace, Msg("light", B2N(FALSE), None))
       ELSE UNCHANGED <<shutter, trace>>
    /\ pc' = "L309"
    /\ UNCHANGED <<sample, store, last_run, plan, sample_num, num_lights, i, uids, t0, pre, cvars, cells>>
    /\ UNCHANGED <<failed, seen>>
    /\ UNCHANGED demo

\* line 306: yield from light(False)
DLC_CloseShutter ==
    /\ pc = "L306"
    /\ light(FALSE)
    /\ trace' = Append(trace, Msg("light", B2N(FALSE), None))
    /\ pc' = "L309"
    /\ UNCHANGED <<sample, store, last_run, plan, sample_num, num_lights, i, uids, t0, pre, cvars, cells>>
    /\ UNCHANGED <<failed, seen>>
    /\ UNCHANGED demo

\* a plan that forgets to move to the sample
DLC_LoadSample_Skipped ==
    /\ pc = "L309"
    /\ pc' = "L312"
    /\ UNCHANGED <<hw, store, last_run, plan, sample_num, num_lights, i, uids, trace,
                   t0, pre, cvars, cells>>
    /\ UNCHANGED <<failed, seen>>
    /\ UNCHANGED demo

\* line 309: yield from load_sample(sample_num)
DLC_LoadSample ==
    /\ pc = "L309"
    /\ load_sample(sample_num)
    /\ trace' = Append(trace, Msg("load_sample", sample_num, None))
    /\ pc' = "L312"
    /\ UNCHANGED <<shutter, store, last_run, plan, sample_num, num_lights, i, uids, t0, pre, cvars, cells>>
    /\ UNCHANGED <<failed, seen>>
    /\ UNCHANGED demo

\* lines 312-313: uid = yield from count([detector]); uids.append(uid)
DLC_Dark ==
    /\ pc = "L312"
    /\ \E u \in FreshUids :
          /\ count(u)
          /\ uids' = Append(uids, u)
          /\ trace' = Append(trace, Msg("count", 0, u))
    /\ pc' = "L316"
    /\ UNCHANGED <<hw, plan, sample_num, num_lights, i, t0, pre, cvars, cells>>
    /\ UNCHANGED <<failed, seen>>
    /\ UNCHANGED demo

\* a loop that starts at 1: range(1, num_lights)
DLC_OpenShutter_LoopFromOne ==
    /\ pc = "L316"
    /\ light(TRUE)
    /\ trace' = Append(trace, Msg("light", B2N(TRUE), None))
    /\ i' = 1
    /\ pc' = "L319"
    /\ UNCHANGED <<sample, store, last_run, plan, sample_num, num_lights, uids, t0, pre,
                   cvars, cells>>
    /\ UNCHANGED <<failed, seen>>
    /\ UNCHANGED demo

\* line 316: yield from light(True); the loop of line 319 starts
DLC_OpenShutter ==
    /\ pc = "L316"
    /\ light(TRUE)
    /\ trace' = Append(trace, Msg("light", B2N(TRUE), None))
    /\ i' = 0
    /\ pc' = "L319"
    /\ UNCHANGED <<sample, store, last_run, plan, sample_num, num_lights, uids, t0, pre, cvars, cells>>
    /\ UNCHANGED <<failed, seen>>
    /\ UNCHANGED demo

\* uids.insert(0, uid) instead of append: the newest identifier comes first
DLC_Light_InsertFirst ==
    /\ pc = "L319"
    /\ i < num_lights
    /\ \E u \in FreshUids :
          /\ count(u)
          /\ uids' = <<u>> \o uids
          /\ trace' = Append(trace, Msg("count", 0, u))
    /\ i' = i + 1
    /\ UNCHANGED <<hw, plan, pc, sample_num, num_lights, t0, pre, cvars, cells>>
    /\ UNCHANGED <<failed, seen>>
    /\ UNCHANGED demo

\* a loop that keeps only the identifier of the last light (append after the loop)
DLC_Light_AppendLast ==
    /\ pc = "L319"
    /\ i < num_lights
    /\ \E u \in FreshUids :
          /\ count(u)
          /\ uids' = IF i + 1 = num_lights THEN Append(uids, u) ELSE uids
          /\ trace' = Append(trace, Msg("count", 0, u))
    /\ i' = i + 1
    /\ UNCHANGED <<hw, plan, pc, sample_num, num_lights, t0, pre, cvars, cells>>
    /\ UNCHANGED <<failed, seen>>
    /\ UNCHANGED demo

\* lines 319-321: for i in range(num_lights): uid = yield from count(...); append
DLC_Light ==
    /\ pc = "L319"
    /\ i < num_lights
    /\ \E u \in FreshUids :
          /\ count(u)
          /\ uids' = Append(uids, u)
          /\ trace' = Append(trace, Msg("count", 0, u))
    /\ i' = i + 1
    /\ UNCHANGED <<hw, plan, pc, sample_num, num_lights, t0, pre, cvars, cells>>
    /\ UNCHANGED <<failed, seen>>
    /\ UNCHANGED demo

\* a plan that leaves the shutter as it is when the lights are taken
DLC_FinalClose_Missing ==
    /\ pc = "L319"
    /\ ~(i < num_lights)
    /\ pc' = "L325"
    /\ UNCHANGED <<hw, store, last_run, plan, sample_num, num_lights, i, uids, trace,
                   t0, pre, cvars, cells>>
    /\ UNCHANGED <<failed, seen>>
    /\ UNCHANGED demo

\* the loop is exhausted; line 324: yield from light(False)
DLC_FinalClose ==
    /\ pc = "L319"
    /\ ~(i < num_lights)
    /\ light(FALSE)
    /\ trace' = Append(trace, Msg("light", B2N(FALSE), None))
    /\ pc' = "L325"
    /\ UNCHANGED <<sample, store, last_run, plan, sample_num, num_lights, i, uids, t0, pre, cvars, cells>>
    /\ UNCHANGED <<failed, seen>>
    /\ UNCHANGED demo

\* line 325: return uids, to the cell that called RE or to custom_plan
DLC_Return ==
    /\ pc = "L325"
    /\ \/ /\ plan = "dlc"
          /\ ret' = uids
          /\ retCall' = [sample_num |-> sample_num, num_lights |-> num_lights,
                         base |-> pre.nruns]
          /\ plan' = "none"
          /\ pc' = "idle"
          /\ trace' = <<>>
          /\ UNCHANGED <<this_pair, reduced>>
       \/ /\ plan = "custom"
          /\ this_pair' = uids
          /\ pc' = "L698"
          /\ UNCHANGED <<plan, trace, cells>>
    /\ LeaveDLC
    /\ UNCHANGED <<hw, store, last_run, c_sample_num, sleep_time, num_loops,
                   loop_i, new_int_list, len0>>
    /\ UNCHANGED <<failed, seen>>
    /\ UNCHANGED demo

\* ------------------------------------------------------------ custom_plan

\* RE(custom_plan(s, sleep_time=t, num_loops=l))
CallCustom ==
    /\ plan = "none"
    /\ \E s \in Samples, t \in SleepTimes, l \in 0..MaxLoops :
          /\ Len(store) + 2 * l <= MaxRuns
          /\ c_sample_num' = s
          /\ sleep_time' = t
          /\ num_loops' = l
    /\ loop_i' = 0
    /\ len0' = Len(new_int_list)
    /\ trace' = <<>>
    /\ plan' = "custom"
    /\ pc' = "L695"
    /\ UNCHANGED <<hw, store, last_run, sample_num, num_lights, i, uids, t0, pre, this_pair,
                   new_int_list, cells>>
    /\ failed' = None
    /\ UNCHANGED seen
    /\ UNCHANGED demo

\* lines 695-697: for i in range(num_loops): print(...);
\* this_pair = yield from dark_light_collection(sample_num); or the loop is
\* exhausted and the plan ends
Custom_Loop ==
    /\ pc = "L695"
    /\ \/ /\ loop_i < num_loops
          /\ EnterDLC(c_sample_num, 1)
          /\ t0' = Len(trace)
          /\ UNCHANGED <<plan, trace, cvars>>
       \/ /\ ~(loop_i < num_loops)
          /\ plan' = "none"
          /\ pc' = "idle"
          /\ trace' = <<>>
          /\ c_sample_num' = 0
          /\ sleep_time' = 0
          /\ num_loops' = 0
          /\ loop_i' = 0
          /\ this_pair' = None
          /\ len0' = 0
          /\ UNCHANGED <<sample_num, num_lights, i, uids, t0, pre, new_int_list>>
    /\ UNCHANGED <<hw, store, last_run, cells>>
    /\ UNCHANGED <<failed, seen>>
    /\ UNCHANGED demo

\* new_int_list.insert(0, ...) instead of append
Custom_Process_InsertFirst ==
    /\ pc = "L698"
    /\ new_int_list' = <<process_data(this_pair, 1, "sub")>> \o new_int_list
    /\ pc' = "L699"
    /\ UNCHANGED <<hw, store, last_run, plan, dlcvars, c_sample_num, sleep_time,
                   num_loops, loop_i, this_pair, len0, cells>>
    /\ UNCHANGED <<failed, seen>>
    /\ UNCHANGED demo

\* a plan that measures one dark, in its first iteration, and reduces every
\* light with it
Custom_Process_FirstDark ==
    /\ pc = "L698"
    /\ new_int_list' =
          Append(new_int_list,
                 process_data(<<store[Len(store) - 2 * loop_i - 1].uid, this_pair[2]>>,
                              1, "sub"))
    /\ pc' = "L699"
    /\ UNCHANGED <<hw, store, last_run, plan, dlcvars, c_sample_num, sleep_time,
                   num_loops, loop_i, this_pair, len0, cells>>
    /\ UNCHANGED <<failed, seen>>
    /\ UNCHANGED demo

\* line 698: new_int_list.append(process_data(this_pair))
Custom_Process ==
    /\ pc = "L698"
    /\ new_int_list' = Append(new_int_list, process_data(this_pair, 1, "sub"))
    /\ pc' = "L699"
    /\ UNCHANGED <<hw, store, last_run, plan, dlcvars, c_sample_num, sleep_time,
                   num_loops, loop_i, this_pair, len0, cells>>
    /\ UNCHANGED <<failed, seen>>
    /\ UNCHANGED demo

\* a plan that sleeps between the iterations only, not after the last one
Custom_Sleep_BetweenOnly ==
    /\ pc = "L699"
    /\ trace' = IF loop_i + 1 < num_loops
                THEN Append(trace, Msg("sim_sleep", sleep_time, None))
                ELSE trace
    /\ loop_i' = loop_i + 1
    /\ pc' = "L695"
    /\ UNCHANGED <<hw, store, last_run, plan, sample_num, num_lights, i, uids, t0, pre,
                   c_sample_num, sleep_time, num_loops, this_pair, new_int_list, len0,
                   cells>>
    /\ UNCHANGED <<failed, seen>>
    /\ UNCHANGED demo

\* line 699: yield from sim_sleep(sleep_time); then the loop of line 695 goes on
Custom_Sleep ==
    /\ pc = "L699"
    /\ trace' = Append(trace, Msg("sim_sleep", sleep_time, None))
    /\ loop_i' = loop_i + 1
    /\ pc' = "L695"
    /\ UNCHANGED <<hw, store, last_run, plan, sample_num, num_lights, i, uids, t0, pre,
                   c_sample_num, sleep_time, num_loops, this_pair, new_int_list, len0,
                   cells>>
    /\ UNCHANGED <<failed, seen>>
    /\ UNCHANGED demo

\* ------------------------------------------------------- a step that raises

\* the lines dark_light_collection is suspended at with a step handed to RE
DlcSteps == {"L306", "L309", "L312", "L316", "L319"}

\* the line after a line of dark_light_collection
NextLine(l) ==
    CASE l = "L306" -> "L309"
      [] l = "L309" -> "L312"
      [] l = "L312" -> "L316"
      [] l = "L316" -> "L319"
      [] l = "L319" -> "L325"

\* what the cell sees of an exception: the plan RE was executing, the line the
\* exception was thrown at, and the session as the step that raised found it
Raised ==
    [plan  |-> plan,
     line  |-> pc,
     pre   |-> pre,
     hw    |-> hw,
     nruns |-> Len(store),
     ret   |-> ret,
     done  |-> len0 + loop_i]

\* a plan that catches the exception and goes on with its next line
DLC_Raise_Swallowed ==
    /\ pc \in DlcSteps
    /\ failed' = Raised
    /\ UNCHANGED seen
    /\ pc' = NextLine(pc)
    /\ UNCHANGED <<hw, store, last_run, plan, dlcvars, cvars, cells>>
    /\ UNCHANGED demo

\* a plan that closes the shutter in a finally clause
DLC_Raise_Cleanup ==
    /\ pc \in DlcSteps
    /\ failed' = Raised
    /\ UNCHANGED seen
    /\ light(FALSE)
    /\ plan' = "none"
    /\ pc' = "idle"
    /\ trace' = <<>>
    /\ LeaveDLC
    /\ c_sample_num' = 0
    /\ sleep_time' = 0
    /\ num_loops' = 0
    /\ loop_i' = 0
    /\ this_pair' = None
    /\ len0' = 0
    /\ UNCHANGED <<sample, store, last_run, new_int_list, cells>>
    /\ UNCHANGED demo

\* The step the plan is suspended at raises instead of taking effect. RE throws
\* the exception into the generator at its yield; lines 303-325 and 694-699
\* have no try statement, so the exception leaves dark_light_collection, then
\* custom_plan when that is the caller, and RE raises it to the cell: the
\* generators are finished, nothing is returned, nothing is assigned.
DLC_Raise ==
    /\ pc \in DlcSteps
    /\ failed' = Raised
    /\ UNCHANGED seen
    /\ plan' = "none"
    /\ pc' = "idle"
    /\ trace' = <<>>
    /\ LeaveDLC
    /\ c_sample_num' = 0
    /\ sleep_time' = 0
    /\ num_loops' = 0
    /\ loop_i' = 0
    /\ this_pair' = None
    /\ len0' = 0
    /\ UNCHANGED <<hw, store, last_run, new_int_list, cells>>
    /\ UNCHANGED demo

\* ------------------------------------------------- the cells run by hand

\* RE(load_sample(k))
Cell_LoadSample ==
    /\ plan = "none"
    /\ \E k \in Samples : load_sample(k)
    /\ UNCHANGED <<shutter, store, last_run, plan, pc, dlcvars, cvars, cells>>
    /\ failed' = None
    /\ UNCHANGED seen
    /\ UNCHANGED demo

\* RE(light(True)), RE(light(False))
Cell_Light ==
    /\ plan = "none"
    /\ \E on \in BOOLEAN : light(on)
    /\ UNCHANGED <<sample, store, last_run, plan, pc, dlcvars, cvars, cells>>
    /\ failed' = None
    /\ UNCHANGED seen
    /\ UNCHANGED demo

\* RE(count([detector]))
Cell_Count ==
    /\ plan = "none"
    /\ Len(store) < MaxRuns
    /\ Len(store) < MaxManual
    /\ \E u \in FreshUids : count(u)
    /\ UNCHANGED <<hw, plan, pc, dlcvars, cvars, cells>>
    /\ failed' = None
    /\ UNCHANGED seen
    /\ UNCHANGED demo

\* reduced = process_data(uids, num_lights=n), with the num_lights the list was
\* collected with, and optionally return_light=True or return_dark=True
Cell_ProcessData ==
    /\ plan = "none"
    /\ ret # None
    /\ reduced' = [pair   |-> ret,
                   n      |-> retCall.num_lights,
                   base   |-> retCall.base,
                   curves |-> process_data(ret, retCall.num_lights, "sub")]
    /\ UNCHANGED <<hw, store, last_run, plan, pc, dlcvars, cvars, ret, retCall>>
    /\ failed' = None
    /\ UNCHANGED seen
    /\ UNCHANGED demo

\* --------------------------------------------------------------------- Spec

Next ==
    \/ CallDLC
    \/ DLC_CloseShutter
    \/ DLC_LoadSample
    \/ DLC_Dark
    \/ DLC_OpenShutter
    \/ DLC_Light
    \/ DLC_FinalClose
    \/ DLC_Return
    \/ CallCustom
    \/ Custom_Loop
    \/ Custom_Process
    \/ Custom_Sleep
    \/ Cell_LoadSample
    \/ Cell_Light
    \/ Cell_Count
    \/ Cell_ProcessData

Spec == Init /\ [][Next]_vars

\* the session in which a step of a plan can raise: the plans, run again and
\* again, the shutter and the sample changed by hand in between
FailNext ==
    \/ CallDLC
    \/ DLC_CloseShutter
    \/ DLC_LoadSample
    \/ DLC_Dark
    \/ DLC_OpenShutter
    \/ DLC_Light
    \/ DLC_FinalClose
    \/ DLC_Return
    \/ CallCustom
    \/ Custom_Loop
    \/ Custom_Process
    \/ Custom_Sleep
    \/ Cell_LoadSample
    \/ Cell_Light
    \/ DLC_Raise

FailSpec == Init /\ [][FailNext]_vars

\* ------------------------------------- two executions of the same call

\* One completed execution of dark_light_collection is noted, any one: its
\* arguments, the hardware and the catalog it started from, the identifiers
\* its counts returned and the steps it issued. The session is left as it is.
Remember ==
    /\ plan = "dlc"
    /\ pc = "L325"
    /\ seen = None
    /\ seen' = [sample_num |-> sample_num,
                num_lights |-> num_lights,
                pre        |-> pre,
                uids       |-> uids,
                issued     |-> [k \in DOMAIN trace |-> Msg(trace[k].op, trace[k].arg, None)]]
    /\ UNCHANGED <<hw, store, last_run, plan, pc, dlcvars, cvars, cells, failed>>
    /\ UNCHANGED demo

\* the session in which dark_light_collection is run again and again, the
\* shutter and the sample changed by hand in between
PairNext ==
    \/ CallDLC
    \/ DLC_CloseShutter
    \/ DLC_LoadSample
    \/ DLC_Dark
    \/ DLC_OpenShutter
    \/ DLC_Light
    \/ DLC_FinalClose
    \/ DLC_Return
    \/ Cell_LoadSample
    \/ Cell_Light
    \/ Remember

PairSpec == Init /\ [][PairNext]_vars

\* ------------------------------------------------ databroker_demo.ipynb

\* h.start['uid'][:5]: the number of characters of the partial uid
PartialLen == 5

\* The characters of a run identifier; of the identifiers RE can draw, the model
\* takes those that vary in their first character, in the last character of
\* the partial uid and in the characters after it.
Hex == {"a", "b"}
DbUids ==
    {u \in [1..UidLen -> Hex] :
        \A k \in 2..(PartialLen - 1) : u[k] = "a"}

DbUsed == {db[k].uid : k \in 1..Len(db)}

\* RE(bp.count([det], ...)): RE draws a fresh uid for the run and, being
\* subscribed with db.mds.insert, the broker records the run
Demo_RE_Count ==
    /\ Len(db) < MaxDbRuns
    /\ \E u \in DbUids \ DbUsed : db' = Insert(db, [uid |-> u])
    /\ UNCHANGED <<h, by_uid, by_partial, mega>>
    /\ UNCHANGED gauss
    /\ UNCHANGED vars

\* key[:n]
Slice(key, n) == SubSeq(key, 1, IF n < Len(key) THEN n ELSE Len(key))

\* the runs whose uid is key, and those whose uid starts with key
ExactMatches(key)   == {r \in {db[k] : k \in 1..Len(db)} : r.uid = key}
PartialMatches(key) ==
    {r \in {db[k] : k \in 1..Len(db)} :
        Len(key) <= Len(r.uid) /\ Slice(r.uid, Len(key)) = key}

Returned(r) == [raised |-> FALSE, value |-> r]
ValueError  == [raised |-> TRUE, value |-> None]

\* db[key] for a string key: the run with that uid; failing that, the run whose
\* uid starts with key; no such run, or more than one, raises ValueError
DbGetItem(key) ==
    LET results == IF ExactMatches(key) # {} THEN ExactMatches(key)
                   ELSE PartialMatches(key)
    IN  IF Cardinality(results) = 1
        THEN Returned(CHOOSE r \in results : TRUE)
        ELSE ValueError

\* lines 492-494: h = db[-1]; assert db[h.start['uid']] == h;
\* assert db[h.start['uid'][:5]] == h. A failing line ends the cell.
Demo_SearchCell ==
    /\ db # <<>>
    /\ h' = db[Len(db)]
    /\ by_uid' = DbGetItem(h'.uid)
    /\ by_partial' = IF by_uid' = Returned(h')
                      THEN DbGetItem(Slice(h'.uid, PartialLen))
                      ELSE None
    /\ UNCHANGED <<db, mega>>
    /\ UNCHANGED gauss
    /\ UNCHANGED vars

DemoNext ==
    \/ Demo_RE_Count
    \/ Demo_SearchCell

DemoSpec == Init /\ [][DemoNext]_demo

\* ------------------------------------------- mega_plan and keyword search

\* mega_plan is executed at most MaxMega times
MaxMega == 2

\* for sample in ('A', 'B', 'C')
SampleNames == <<"A", "B", "C">>

\* The uid RE draws for the k-th run of the broker: the identifiers are opaque,
\* the model draws them in a fixed order, written with the characters of Hex.
SerialUid(k) ==
    [j \in 1..UidLen |-> IF (k \div (2 ^ (j - 1))) % 2 = 1 THEN "b" ELSE "a"]

\* the start document of a run: its uid, the plan's name and the md passed
StartDoc(plan_name, md) ==
    [uid |-> SerialUid(Len(db) + 1), plan_name |-> plan_name, md |-> md]

\* {**base_md, 'role': role, 'sample': sample} with base_md = {'operator': operator}
Metadata(operator, role, smp) == [operator |-> operator, role |-> role, sample |-> smp]

\* RE(mega_plan(operator))
Mega_Call ==
    /\ m_pc = "idle"
    /\ Len(db) + 2 * Len(SampleNames) <= 2 * Len(SampleNames) * MaxMega
    /\ \E o \in Operators : m_operator' = o
    /\ m_sample' = 1
    /\ m_base' = Len(db)
    /\ m_pc' = "L515"
    /\ UNCHANGED <<db, h, by_uid, by_partial, executed, found>>
    /\ UNCHANGED gauss
    /\ UNCHANGED vars

\* line 515: yield from bp.count([det], md={**base_md, 'role': 'calibration',
\* 'sample': sample}): one run, inserted by the subscription of line 99
Mega_Calibration ==
    /\ m_pc = "L515"
    /\ db' = Insert(db, StartDoc("count",
                                 Metadata(m_operator, "calibration", SampleNames[m_sample])))
    /\ m_pc' = "L516"
    /\ UNCHANGED <<h, by_uid, by_partial, m_operator, m_sample, m_base, executed, found>>
    /\ UNCHANGED gauss
    /\ UNCHANGED vars

\* a scan without md=
Mega_Scan_NoMetadata ==
    /\ m_pc = "L516"
    /\ db' = Insert(db, StartDoc("scan", <<>>))
    /\ IF m_sample < Len(SampleNames)
       THEN m_sample' = m_sample + 1 /\ m_pc' = "L515"
       ELSE m_sample' = m_sample /\ m_pc' = "end"
    /\ UNCHANGED <<h, by_uid, by_partial, m_operator, m_base, executed, found>>
    /\ UNCHANGED gauss
    /\ UNCHANGED vars

\* line 516: yield from bp.scan([det], motor, -1, 3, 10, md={**base_md,
\* 'role': 'ascan', 'sample': sample}): one run; then the loop of line 514
\* takes the next sample or is exhausted
Mega_Scan ==
    /\ m_pc = "L516"
    /\ db' = Insert(db, StartDoc("scan",
                                 Metadata(m_operator, "ascan", SampleNames[m_sample])))
    /\ IF m_sample < Len(SampleNames)
       THEN m_sample' = m_sample + 1 /\ m_pc' = "L515"
       ELSE m_sample' = m_sample /\ m_pc' = "end"
    /\ UNCHANGED <<h, by_uid, by_partial, m_operator, m_base, executed, found>>
    /\ UNCHANGED gauss
    /\ UNCHANGED vars

\* the generator is finished, RE returns to the cell
Mega_Return ==
    /\ m_pc = "end"
    /\ executed' = [executed EXCEPT ![m_operator] = @ + 1]
    /\ m_operator' = None
    /\ m_sample' = 0
    /\ m_base' = 0
    /\ m_pc' = "idle"
    /\ UNCHANGED <<db, h, by_uid, by_partial, found>>
    /\ UNCHANGED gauss
    /\ UNCHANGED vars

\* db(**kwargs): the runs whose start document has every given key with the
\* given value; db() gives all runs
Search(kwargs) ==
    {r \in {db[k] : k \in 1..Len(db)} :
        \A key \in DOMAIN kwargs : key \in DOMAIN r.md /\ r.md[key] = kwargs[key]}

\* lines 559-586: len(db(operator=o)), len(db(operator=o, role='calibration')),
\* len(db(operator=o, role='calibration', sample='A')), len(db())
Demo_KeywordSearch ==
    /\ m_pc = "idle"
    /\ \E o \in Operators :
          found' =
             [operator    |-> o,
              executions  |-> executed[o],
              held        |-> Len(db),
              by_operator |-> Cardinality(Search([operator |-> o])),
              by_role     |-> Cardinality(Search([operator |-> o, role |-> "calibration"])),
              by_sample   |-> Cardinality(Search([operator |-> o, role |-> "calibration",
                                                      sample |-> "A"])),
              all         |-> Cardinality(Search(<<>>))]
    /\ UNCHANGED <<db, h, by_uid, by_partial, m_operator, m_sample, m_pc, m_base, executed>>
    /\ UNCHANGED gauss
    /\ UNCHANGED vars

MegaNext ==
    \/ Mega_Call
    \/ Mega_Calibration
    \/ Mega_Scan
    \/ Mega_Return
    \/ Demo_KeywordSearch

MegaSpec == Init /\ [][MegaNext]_demo

\* ------------------------------------------------------- scan_gaussian

\* num is drawn from 1..MaxNum
MaxNum == 3
\* a scan makes at most MaxPasses passes
MaxPasses == 2

\* model = lmfit.Model(gaussian): the parameters A, sigma, x0
NumParams == 3

\* err_thresh, in thousandths: the default 0.07 and 0.08
ErrThresholds == {70, 80}

\* conf_interval() for one parameter: (level, value) pairs from the lower 3
\* sigma bound to the upper one, the best value in the middle; values in
\* thousandths
ConfInterval(best, spread) ==
    <<<<9973, best - 3 * spread>>, <<9545, best - 2 * spread>>,
      <<6827, best - spread>>, <<0, best>>, <<6827, best + spread>>,
      <<9545, best + 2 * spread>>, <<9973, best + 3 * spread>>>>

\* the fits the noisy data can give: sigma near 3, its 95% interval 0.04, 0.06
\* or 0.08 wide
FitResults == {[sigma |-> ConfInterval(3000, spread)] : spread \in {10, 15, 20}}

\* lines 346-349: ci[param_name][-2][1] - ci[param_name][1][1]
errorbar(lmfit_result, param_name) ==
    LET ci == lmfit_result
    IN  ci[param_name][Len(ci[param_name]) - 1][2] - ci[param_name][2][2]

\* line 385: lf.result is None or errorbar(lf.result, 'sigma') < err_thresh
StopCondition ==
    IF lf_result = None THEN TRUE ELSE errorbar(lf_result, "sigma") < sg_thresh

\* RE(scan_gaussian([noisy_det], motor, start, stop, num, err_thresh=t)): a new
\* LiveFit without a result; run_decorator opens the one run of the scan
SG_Call ==
    /\ sg_pc = "idle"
    /\ Len(db) < MaxDbRuns
    /\ \E n \in 1..MaxNum, t \in ErrThresholds :
          /\ sg_num' = n
          /\ sg_thresh' = t
    /\ lf_result' = None
    /\ sg_points' = 0
    /\ sg_checks' = <<>>
    /\ sg_step' = 1
    /\ sg_base' = Len(db)
    /\ db' = Insert(db, StartDoc(None, <<>>))
    /\ sg_pc' = "L381"
    /\ UNCHANGED <<h, by_uid, by_partial, mega>>
    /\ UNCHANGED vars

\* lines 380-381: yield from bp.abs_set(motor, step, wait=True)
SG_Set ==
    /\ sg_pc = "L381"
    /\ sg_pc' = "L382"
    /\ UNCHANGED <<sg_num, sg_thresh, sg_step, sg_points, lf_result, sg_checks, sg_base>>
    /\ UNCHANGED <<db, h, by_uid, by_partial, mega>>
    /\ UNCHANGED vars

\* line 382: yield from bp.trigger_and_read(...): one more point; LiveFit gets
\* the event and fits again once it has as many points as parameters
SG_Read ==
    /\ sg_pc = "L382"
    /\ sg_points' = sg_points + 1
    /\ IF sg_points' < NumParams
       THEN lf_result' = lf_result
       ELSE lf_result' \in FitResults
    /\ sg_pc' = "L383"
    /\ UNCHANGED <<sg_num, sg_thresh, sg_step, sg_checks, sg_base>>
    /\ UNCHANGED <<db, h, by_uid, by_partial, mega>>
    /\ UNCHANGED vars

\* a scan that stops as soon as the fit is good enough, inside the pass
SG_Checkpoint_Impatient ==
    /\ sg_pc = "L383"
    /\ IF lf_result # None /\ errorbar(lf_result, "sigma") < sg_thresh
       THEN sg_step' = sg_step /\ sg_pc' = "end"
       ELSE IF sg_step < sg_num
            THEN sg_step' = sg_step + 1 /\ sg_pc' = "L381"
            ELSE sg_step' = sg_step /\ sg_pc' = "L385"
    /\ UNCHANGED <<sg_num, sg_thresh, sg_points, lf_result, sg_checks, sg_base>>
    /\ UNCHANGED <<db, h, by_uid, by_partial, mega>>
    /\ UNCHANGED vars

\* line 383: yield from bp.checkpoint(); then the loop of line 379 takes the
\* next step or is exhausted
SG_Checkpoint ==
    /\ sg_pc = "L383"
    /\ IF sg_step < sg_num
       THEN sg_step' = sg_step + 1 /\ sg_pc' = "L381"
       ELSE sg_step' = sg_step /\ sg_pc' = "L385"
    /\ UNCHANGED <<sg_num, sg_thresh, sg_points, lf_result, sg_checks, sg_base>>
    /\ UNCHANGED <<db, h, by_uid, by_partial, mega>>
    /\ UNCHANGED vars

\* lines 385-386: break, or back to line 378 for another pass (the model
\* follows a scan for MaxPasses passes)
SG_Check ==
    /\ sg_pc = "L385"
    /\ StopCondition \/ Len(sg_checks) + 1 < MaxPasses
    /\ sg_checks' = Append(sg_checks, [points |-> sg_points, result |-> lf_result,
                                       stop |-> StopCondition])
    /\ IF StopCondition
       THEN sg_step' = sg_step /\ sg_pc' = "end"
       ELSE sg_step' = 1 /\ sg_pc' = "L381"
    /\ UNCHANGED <<sg_num, sg_thresh, sg_points, lf_result, sg_base>>
    /\ UNCHANGED <<db, h, by_uid, by_partial, mega>>
    /\ UNCHANGED vars

\* the generator is finished: run_decorator closes the run, RE returns
SG_Return ==
    /\ sg_pc = "end"
    /\ sg_num' = 0
    /\ sg_thresh' = 0
    /\ sg_step' = 0
    /\ sg_points' = 0
    /\ lf_result' = None
    /\ sg_checks' = <<>>
    /\ sg_base' = 0
    /\ sg_pc' = "idle"
    /\ UNCHANGED <<db, h, by_uid, by_partial, mega>>
    /\ UNCHANGED vars

ScanNext ==
    \/ SG_Call
    \/ SG_Set
    \/ SG_Read
    \/ SG_Checkpoint
    \/ SG_Check
    \/ SG_Return

ScanSpec == Init /\ [][ScanNext]_demo

\* the width of the 95% confidence interval of a fit's sigma
Width95(result) ==
    LET ci   == result["sigma"]
        ends == {ci[k][2] : k \in {j \in DOMAIN ci : ci[j][1] = 9545}}
    IN  (CHOOSE hi \in ends : \A e \in ends : e <= hi)
        - (CHOOSE lo \in ends : \A e \in ends : lo <= e)

\* C16: scan_gaussian evaluates its stop condition only when all num points of
\* a pass have been measured; it stops exactly when the fit has no result or
\* the 95% confidence interval of sigma is narrower than err_thresh, and
\* otherwise makes another full pass in the same run. A completed scan has
\* measured k * num points, k >= 1 the number of its passes.
C16_StopsAfterFullPass ==
    /\ \A j \in DOMAIN sg_checks :
          /\ sg_checks[j].points = j * sg_num
          /\ sg_checks[j].stop <=>
                (IF sg_checks[j].result = None
                 THEN TRUE
                 ELSE Width95(sg_checks[j].result) < sg_thresh)
          /\ j < Len(sg_checks) => ~sg_checks[j].stop
    /\ sg_pc \in {"L381", "L382", "L383", "L385"} =>
          /\ \A j \in DOMAIN sg_checks : ~sg_checks[j].stop
          /\ Len(db) = sg_base + 1
    /\ sg_pc = "end" =>
          /\ Len(sg_checks) >= 1
          /\ sg_checks[Len(sg_checks)].stop
          /\ sg_points = Len(sg_checks) * sg_num
          /\ Len(db) = sg_base + 1

\* a scan that stopped after its second pass: the fit was not good enough
\* after the first
C16_Witness ==
    /\ sg_pc = "end"
    /\ Len(sg_checks) = MaxPasses
    /\ sg_points = MaxPasses * sg_num
    /\ sg_checks[1].result # None
    /\ lf_result # None

\* C15: an execution of mega_plan(operator) has, at its end, added exactly six
\* runs to the broker, in the order A-calibration (a count), A-ascan (a scan),
\* B-calibration, B-ascan, C-calibration, C-ascan, each with the operator, its
\* role and its sample in its start document. After one execution for an
\* operator the broker held no runs of before, the searches show 6 runs for the
\* operator, 3 for its calibrations and 1 for its calibration of sample A (in
\* general 6, 3 and 1 per execution), and db() shows no fewer runs than any
\* of them.
C15_MegaPlanRuns ==
    /\ m_pc = "end" =>
          /\ Len(db) = m_base + 6
          /\ \A k \in 1..3 :
                /\ db[m_base + 2 * k - 1].plan_name = "count"
                /\ db[m_base + 2 * k - 1].md =
                      Metadata(m_operator, "calibration", SampleNames[k])
                /\ db[m_base + 2 * k].plan_name = "scan"
                /\ db[m_base + 2 * k].md = Metadata(m_operator, "ascan", SampleNames[k])
    /\ found # None =>
          /\ found.executions = 1 =>
                /\ found.by_operator = 6
                /\ found.by_role = 3
                /\ found.by_sample = 1
          /\ found.by_operator = 6 * found.executions
          /\ found.by_role = 3 * found.executions
          /\ found.by_sample = found.executions
          /\ found.all >= found.by_operator
          /\ found.by_operator >= found.by_role
          /\ found.by_role >= found.by_sample
          /\ found.all = found.held

\* the searches for an operator whose mega_plan was executed once, on a broker
\* that holds another operator's runs too
C15_Witness ==
    /\ m_pc = "idle"
    /\ found # None
    /\ found.executions = 1
    /\ found.by_operator = 6
    /\ found.by_role = 3
    /\ found.by_sample = 1
    /\ found.all = 12
    /\ db[1].md.operator # found.operator

\* C10, as claimed: when the cell has looked h = db[-1] up again, the look-up
\* by the full uid and the look-up by its first five characters have both
\* returned h, whatever other runs the broker holds.
C10_UidAndPartialUid ==
    h # None =>
        /\ by_uid = Returned(h)
        /\ by_partial = Returned(h)

\* ------------------------------------------------- dark_light_collection

\* the lines dark_light_collection can be suspended at
DlcLines == {"L306", "L309", "L312", "L316", "L319", "L325"}

\* dark_light_collection has executed line 324 and is about to return
DlcCompleted == pc = "L325"

\* what the running dark_light_collection has issued, without the identifiers
DlcTrace == SubSeq(trace, t0 + 1, Len(trace))
Anon(seq) == [k \in DOMAIN seq |-> Msg(seq[k].op, seq[k].arg, None)]

\* the runs the running dark_light_collection has executed, in order
DlcCounts == SelectSeq(DlcTrace, LAMBDA m : m.op = "count")

\* the counts issued after the shutter was opened
LightCounts ==
    LET opened == {k \in DOMAIN DlcTrace : DlcTrace[k] = Msg("light", 1, None)}
    IN  {k \in DOMAIN DlcTrace : DlcTrace[k].op = "count" /\ \E o \in opened : o < k}

IsPrefix(a, b) == Len(a) <= Len(b) /\ SubSeq(b, 1, Len(a)) = a

ExpectedSequence(s, n) ==
    <<Msg("light", 0, None), Msg("load_sample", s, None), Msg("count", 0, None),
      Msg("light", 1, None)>>
    \o [k \in 1..n |-> Msg("count", 0, None)]
    \o <<Msg("light", 0, None)>>

\* C1: a completed dark_light_collection(sample_num, num_lights) has issued
\* light(False), load_sample(sample_num), one count, light(True), num_lights
\* counts, light(False), in this order, and nothing else; while it runs it has
\* issued a prefix of that sequence.
C1_ActionSequence ==
    pc \in DlcLines =>
        /\ IsPrefix(Anon(DlcTrace), ExpectedSequence(sample_num, num_lights))
        /\ DlcCompleted => Anon(DlcTrace) = ExpectedSequence(sample_num, num_lights)

C1_Witness ==
    /\ DlcCompleted
    /\ plan = "dlc"
    /\ num_lights = MaxLights
    /\ Len(DlcTrace) = 5 + MaxLights
    /\ pre.sample # sample_num

\* C2: the list dark_light_collection returns has num_lights + 1 entries: the
\* identifier of the dark count, then those of the light counts in the order
\* the counts were executed.
C2_ReturnedList ==
    /\ DlcCompleted =>
          /\ Len(uids) = num_lights + 1
          /\ \A k \in 1..Len(uids) : uids[k] = DlcCounts[k].uid
    /\ ret # None =>
          /\ Len(ret) = retCall.num_lights + 1
          /\ \A k \in 1..Len(ret) : ret[k] = store[retCall.base + k].uid

C2_Witness ==
    /\ ret # None
    /\ Len(ret) = MaxLights + 1
    /\ retCall.base > 0

\* the run recorded in the catalog under an identifier
RunOf(u) == Catalog("uid", u)

\* C3: the count whose identifier is stored first was executed with the shutter
\* closed, every count whose identifier is stored after it with the shutter
\* open and sample_num loaded, whatever the hardware's state at the call.
C3_DarkClosedLightsOpen ==
    /\ pc \in DlcLines =>
          \A k \in 1..Len(uids) :
             IF k = 1
             THEN RunOf(uids[k]).shutter = FALSE
             ELSE RunOf(uids[k]).shutter = TRUE /\ RunOf(uids[k]).sample = sample_num
    /\ ret # None =>
          \A k \in 1..Len(ret) :
             IF k = 1
             THEN RunOf(ret[k]).shutter = FALSE
             ELSE /\ RunOf(ret[k]).shutter = TRUE
                  /\ RunOf(ret[k]).sample = retCall.sample_num

C3_Witness ==
    /\ DlcCompleted
    /\ pre.shutter = TRUE
    /\ pre.sample # sample_num
    /\ pre.sample # 0
    /\ Len(uids) = MaxLights + 1

\* C4: when dark_light_collection completes the shutter is closed, whatever
\* it was at the call and whatever num_lights is.
C4_ShutterClosedAtEnd == DlcCompleted => shutter = FALSE

C4_Witness ==
    /\ DlcCompleted
    /\ pre.shutter = TRUE
    /\ num_lights = 0

\* C5, as claimed: every completed call has executed at least one count
\* between opening the shutter and closing it again.
C5_AtLeastOneLight == DlcCompleted => Cardinality(LightCounts) >= 1

\* C5, amended: a completed call has executed exactly num_lights counts between
\* opening the shutter and closing it again; that is at least one exactly when
\* num_lights >= 1, and none when num_lights = 0.
C5_ExactlyNumLights ==
    DlcCompleted =>
        /\ Cardinality(LightCounts) = num_lights
        /\ \A k \in LightCounts : k < Len(DlcTrace)
        /\ (Cardinality(LightCounts) >= 1) <=> (num_lights >= 1)

C5_Witness ==
    /\ DlcCompleted
    /\ num_lights = 0
    /\ Cardinality(LightCounts) = 0
    /\ Len(uids) = 1


\* ------------------------------------------- the manual procedure of Part 1

\* the cells of Part 1, in the order the notebook runs them: load the sample,
\* open the shutter, count (the light); close the shutter, wait, count (the dark)
ManualProcedure ==
    <<Msg("load_sample", 1, None), Msg("light", 1, None), Msg("count", 0, None),
      Msg("light", 0, None), Msg("sim_sleep", 15, None), Msg("count", 0, None)>>

\* C6, as claimed: every step of the manual procedure has a corresponding step
\* in a completed dark_light_collection, and the plan waits between closing the
\* shutter and taking the dark image.
C6_SameActionsAsManual ==
    (DlcCompleted /\ num_lights >= 1) =>
        /\ \A m \in DOMAIN ManualProcedure :
              \E k \in DOMAIN DlcTrace : DlcTrace[k].op = ManualProcedure[m].op
        /\ \E a, b, c \in DOMAIN DlcTrace :
              /\ a < b /\ b < c
              /\ DlcTrace[a] = Msg("light", 0, None)
              /\ DlcTrace[b].op = "sim_sleep"
              /\ DlcTrace[c].uid = uids[1]

\* ---------------------------------------------------------- process_data

\* C7: process_data(list, num_lights=n) on a list dark_light_collection
\* returned gives n curves, the k-th the integration of (the image of the k-th
\* light exposure of that call minus the image of its dark exposure).
C7_ProcessData ==
    reduced # None =>
        LET first == store[reduced.base + 1]
        IN  /\ first.shutter = FALSE
            /\ Len(reduced.curves) = reduced.n
            /\ Len(reduced.pair) = reduced.n + 1
            /\ \A k \in 1..reduced.n :
                  reduced.curves[k] =
                      simple_integration(ImSub(store[reduced.base + 1 + k].img, first.img))

C7_Witness ==
    /\ reduced # None
    /\ reduced.n = MaxLights
    /\ reduced.base > 0
    /\ reduced.curves[1] # reduced.curves[MaxLights]

\* ------------------------------------------------------------ custom_plan

\* the k-th iteration's part of the trace of custom_plan: the six messages of
\* one dark_light_collection with one light, then the sleep
IterationTrace(k) == SubSeq(trace, 7 * (k - 1) + 1, 7 * k)

\* C8: at every turn of its loop, and so when it ends, custom_plan has appended
\* one entry per iteration to new_int_list, in loop order, the k-th from the
\* dark and the light of the k-th iteration; every iteration has performed one
\* dark_light_collection with one dark and one light exposure.
C8_OnePerLoop ==
    pc = "L695" =>
        /\ Len(new_int_list) = len0 + loop_i
        /\ loop_i <= num_loops
        /\ Len(trace) = 7 * loop_i
        /\ \A k \in 1..loop_i :
              LET it == IterationTrace(k)
              IN  /\ Anon(SubSeq(it, 1, 6)) = ExpectedSequence(c_sample_num, 1)
                  /\ it[7] = Msg("sim_sleep", sleep_time, None)
                  /\ new_int_list[len0 + k] =
                        <<simple_integration(ImSub(RunOf(it[5].uid).img,
                                                   RunOf(it[3].uid).img))>>

C8_Witness ==
    /\ pc = "L695"
    /\ num_loops = MaxLoops
    /\ loop_i = num_loops
    /\ Len(new_int_list) = MaxLoops
    /\ new_int_list[1] # new_int_list[MaxLoops]

\* --------------------------------------------------------------- catalog

C11_ExceptionPropagates ==
    failed # None =>
        /\ plan = "none"
        /\ pc = "idle"
        /\ hw = failed.hw
        /\ Len(store) = failed.nruns
        /\ ret = failed.ret
        /\ failed.plan = "custom" =>
              /\ Len(new_int_list) = failed.done
              /\ this_pair = None

\* the light exposure of custom_plan's second iteration raises
C11_Witness ==
    /\ failed # None
    /\ failed.plan = "custom"
    /\ failed.line = "L319"
    /\ failed.done = 1
    /\ Len(new_int_list) = 1
    /\ Len(store) = 3

Sleeps == {k \in DOMAIN trace : trace[k].op = "sim_sleep"}

\* the positions of the dark exposures: the counts taken with the shutter closed
Darks ==
    {k \in DOMAIN trace : trace[k].op = "count" /\ RunOf(trace[k].uid).shutter = FALSE}

\* the simulated time the steps a..b of the trace have slept
RECURSIVE Slept(_, _)
Slept(a, b) ==
    IF a > b THEN 0
    ELSE (IF trace[a].op = "sim_sleep" THEN trace[a].arg ELSE 0) + Slept(a + 1, b)

\* the last step before step k that opened the shutter, 0 when there is none
LastOpened(k) ==
    LET opened == {j \in 1..(k - 1) : trace[j] = Msg("light", 1, None)}
    IN  IF opened = {} THEN 0 ELSE CHOOSE j \in opened : \A o \in opened : o <= j

\* the steps that closed the shutter between that one and step k
ClosedBefore(k) ==
    {c \in (LastOpened(k) + 1)..(k - 1) : trace[c] = Msg("light", 0, None)}

\* the simulated time the shutter has been closed for when step k is executed
ClosedFor(k) ==
    LET c == CHOOSE c \in ClosedBefore(k) : \A o \in ClosedBefore(k) : c <= o
    IN  Slept(c + 1, k - 1)

\* C13: in every iteration of custom_plan the whole dark_light_collection comes
\* first (six steps, the shutter closed and both runs recorded at its end),
\* then process_data on that pair, then sim_sleep(sleep_time), and the next
\* iteration's first step comes after that sleep. So there is one sleep per
\* completed iteration, the last one included; no sleep precedes the first
\* dark; every dark from the second iteration on is taken when the shutter has
\* been closed for sleep_time at least.
C13_IterationOrder ==
    plan = "custom" =>
        /\ Sleeps = {7 * m : m \in 1..loop_i}
        /\ \A k \in Sleeps :
              /\ trace[k] = Msg("sim_sleep", sleep_time, None)
              /\ trace[k - 1] = Msg("light", 0, None)
              /\ {trace[k - 4].uid, trace[k - 2].uid} \subseteq UsedUids
              /\ Len(new_int_list) >= len0 + (k \div 7)
        /\ pc \in DlcLines =>
              /\ t0 = 7 * loop_i
              /\ Len(new_int_list) = len0 + loop_i
        /\ pc = "L698" =>
              /\ Len(trace) = 7 * loop_i + 6
              /\ shutter = FALSE
              /\ {this_pair[1], this_pair[2]} \subseteq UsedUids
              /\ Len(new_int_list) = len0 + loop_i
        /\ pc = "L699" =>
              /\ Len(trace) = 7 * loop_i + 6
              /\ shutter = FALSE
              /\ Len(new_int_list) = len0 + loop_i + 1
        /\ (pc = "L695" /\ loop_i = num_loops) => Cardinality(Sleeps) = num_loops
        /\ \A d \in Darks :
              /\ d < 7 => \A k \in Sleeps : d < k
              /\ d > 7 =>
                    /\ ClosedBefore(d) # {}
                    /\ ClosedFor(d) >= sleep_time

\* the last turn of a custom_plan that sleeps 60: the sleep after the last
\* iteration has been made
C13_Witness ==
    /\ plan = "custom"
    /\ pc = "L695"
    /\ sleep_time = 60
    /\ num_loops = MaxLoops
    /\ loop_i = num_loops
    /\ Cardinality(Sleeps) = MaxLoops
    /\ Cardinality(Darks) = MaxLoops
    /\ \E d \in Darks : d > 7 /\ ClosedFor(d) = 60

\* the catalog's size when the running custom_plan started, at line 695
CustomBase == Len(store) - 2 * loop_i

\* C14: every entry custom_plan appends to new_int_list is reduced from the
\* light exposure of one iteration and the dark exposure of the same iteration,
\* the exposure taken just before the shutter was opened for that light, never
\* from the dark of an earlier iteration.
C14_DarkOfSameIteration ==
    /\ (plan = "custom" /\ pc = "L698") =>
          /\ this_pair = <<store[Len(store) - 1].uid, store[Len(store)].uid>>
          /\ store[Len(store) - 1].shutter = FALSE
          /\ store[Len(store)].shutter = TRUE
    /\ (plan = "custom" /\ pc = "L695") =>
          \A k \in 1..loop_i :
             LET dark   == store[CustomBase + 2 * k - 1]
                 lit    == store[CustomBase + 2 * k]
                 opened == 7 * (k - 1) + 4
             IN  /\ dark.shutter = FALSE
                 /\ lit.shutter = TRUE
                 /\ trace[opened] = Msg("light", 1, None)
                 /\ trace[opened - 1] = Msg("count", 0, dark.uid)
                 /\ trace[opened + 1] = Msg("count", 0, lit.uid)
                 /\ new_int_list[len0 + k] =
                       <<simple_integration(ImSub(lit.img, dark.img))>>
                 /\ \A j \in 1..(k - 1) :
                       new_int_list[len0 + k] #
                          <<simple_integration(
                               ImSub(lit.img, store[CustomBase + 2 * j - 1].img))>>

\* two iterations done: the second entry is reduced with the second dark
C14_Witness ==
    /\ plan = "custom"
    /\ pc = "L695"
    /\ loop_i = MaxLoops
    /\ Len(new_int_list) = len0 + MaxLoops
    /\ store[CustomBase + 1].img # store[CustomBase + 3].img

\* ------------------------------------- two executions of the same call

\* C12: two executions of dark_light_collection with the same sample_num and
\* num_lights issue the same steps in the same order, step by step, whatever
\* the shutter, the loaded sample and the catalog were when each started and
\* whatever identifiers their counts returned.
C12_FunctionOfArguments ==
    (/\ seen # None
     /\ plan = "dlc"
     /\ pc \in DlcLines
     /\ sample_num = seen.sample_num
     /\ num_lights = seen.num_lights) =>
        /\ IsPrefix(Anon(DlcTrace), seen.issued)
        /\ DlcCompleted => Anon(DlcTrace) = seen.issued

\* the second execution started with the other shutter state, another sample
\* loaded and more runs in the catalog, and its counts returned other
\* identifiers
C12_Witness ==
    /\ seen # None
    /\ plan = "dlc"
    /\ DlcCompleted
    /\ sample_num = seen.sample_num
    /\ num_lights = seen.num_lights
    /\ num_lights >= 1
    /\ pre.shutter # seen.pre.shutter
    /\ pre.sample # seen.pre.sample
    /\ pre.sample # 0
    /\ pre.nruns # seen.pre.nruns
    /\ \A a \in DOMAIN uids : \A b \in DOMAIN seen.uids : uids[a] # seen.uids[b]
====
